---- MODULE Spec2Model ----
(***************************************************************************)
(* MelodyMaster MainContainer: playlist, transport, upload intake and the  *)
(* 3-band equalizer, modelled from the React component's handlers and      *)
(* effects.  Two revisions of the component are covered:                   *)
(*   "SR"  the shuffle/repeat revision  (part_000 lines 1332-2089)         *)
(*   "EQ"  the upload/equalizer revision (part_000 lines 2091-3212)        *)
(* One action is one browser event: the handler, the re-render it causes   *)
(* and the effects React flushes before the next event is dispatched.      *)
(***************************************************************************)
EXTENDS Integers, Sequences, FiniteSets, TLC

(* ------------------------------ bounds -------------------------------- *)
MaxBuiltin == 3      \* longest built-in track list that is enumerated
MaxUserTracks == 2   \* uploads admitted in one session
MaxBatch == 3        \* files in one upload batch
MaxPos == 1          \* media positions 0..MaxPos (MaxPos is the end)
GainOver == 1        \* how far a requested slider value overshoots the range
SeekOver == 1        \* how far a requested seek target overshoots 0..MaxPos

(* ------------------------- program constants -------------------------- *)
EqMin == -12
EqMax == 12
DefaultRangeMax == 100   \* max of a range input whose max attribute is absent

NullDuration == -1       \* duration: null, apart from every number of seconds
NoError == ""
AudioErrorMsg == "Audio format/source not supported or not reachable. Try another track or check connection."
AudioErrorMsgSR == "Audio format or source is not supported or not reachable. Please check your internet connection or try a different track. If you're developing, update the audioTracks array in MainContainer.js with valid mp3 or wav sources!"
NoValidFilesMsg == "Please upload only .mp3 audio files."
PartialRejectionMsg == "Some selected files were not .mp3 and were ignored."
FakePath == "C:\\fakepath"

VARIABLES
  build,          \* which revision of MainContainer is running
  canPlayTypes,   \* MIME types for which audio.canPlayType() is non-empty
  defaultTracks,  \* built-in list (audioTracks in SR, defaultTracks in EQ)
  slowLoads,      \* whether a newly selected resource needs time to become playable
  currentIdx, playing, progress, shuffle, repeat, audioError,
  fileError, userTracks,
  eqBands,        \* EqualizerState [bass, mid, treble]
  nodeGain,       \* webAudio.eqNodes[i].gain.value
  fileInputValue, \* value of the <input type=file>
  blobCount,      \* object URLs minted so far by URL.createObjectURL
  audioTime,      \* <audio>.currentTime
  audioState,     \* <audio>: "paused", "waiting" (play() asked, promise pending),
                  \* "playing", "ended" or "failed"
  audioReady,     \* <audio>: the resource has enough data to play
  rejections,     \* rejected play() promises whose .catch has not run yet
  endedLength,    \* availableTracks.length as the registered ended listener sees it
  webAudio,       \* the webAudio React state: context, source, eqNodes
  audioGraph,     \* the Web Audio graph and the setup effect's pending cleanup
  lastOp,         \* history: the event handled last
  lastArg,        \* history: what that event carried
  run             \* history: <<index before, length>> of the current run of Next presses

vars == <<build, canPlayTypes, defaultTracks, slowLoads, currentIdx, playing, progress,
          shuffle, repeat, audioError, fileError, userTracks, eqBands, nodeGain,
          fileInputValue, blobCount, audioTime, audioState, audioReady,
          rejections, endedLength, webAudio, audioGraph, lastOp, lastArg, run>>

config == <<build, canPlayTypes, defaultTracks, slowLoads>>
eqVars == <<eqBands, nodeGain>>
uploadVars == <<fileError, userTracks, fileInputValue, blobCount>>
modeVars == <<shuffle, repeat>>
effectVars == <<webAudio, audioGraph, audioReady, rejections, endedLength>>

(* ------------------------------ helpers ------------------------------- *)
Min(a, b) == IF a < b THEN a ELSE b
Max(a, b) == IF a > b THEN a ELSE b

Builds == {"SR", "EQ"}
MimeTypes == {"audio/mpeg", "audio/wav", "audio/ogg"}
Runtimes == {MimeTypes, MimeTypes \ {"audio/mpeg"}}
BuiltinExts == {"mp3", "wav"}

\* String.prototype.toLowerCase on the name suffixes that occur
ToLower(s) == CASE s = "MP3" -> "mp3"
                [] s = "WAV" -> "wav"
                [] s = "OGG" -> "ogg"
                [] OTHER -> s

BuiltinTrack(i, e) ==
  [src |-> [scheme |-> "https", id |-> i, ext |-> e],
   duration |-> MaxPos, isUploaded |-> FALSE]

\* the enumerated built-in lists: every list of 1..MaxBuiltin tracks whose
\* sources end in one of BuiltinExts; sources are pairwise distinct
Playlists ==
  UNION { { [i \in 1..k |-> BuiltinTrack(i, exts[i])] : exts \in [1..k -> BuiltinExts] }
          : k \in 1..MaxBuiltin }

fallbackTrack ==
  [src |-> [scheme |-> "https", id |-> 0, ext |-> "mp3"],
   duration |-> MaxPos, isUploaded |-> FALSE]

UndefinedTrack ==
  [src |-> [scheme |-> "undefined", id |-> 0, ext |-> ""],
   duration |-> NullDuration, isUploaded |-> FALSE]

getNextTrackIdx(idx, dir, length) ==
  LET next == idx + dir
  IN  IF next < 0 THEN length - 1
      ELSE IF next >= length THEN 0
      ELSE next

canPlayAudioSrc(src, types) ==
  LET ext == ToLower(src.ext)
  IN  CASE ext = "mp3" -> "audio/mpeg" \in types
        [] ext = "wav" -> "audio/wav" \in types
        [] ext = "ogg" -> "audio/ogg" \in types
        [] OTHER -> TRUE

\* JavaScript remainder: the sign of the dividend
JsRem(a, n) == IF a >= 0 THEN a % n ELSE -((-a) % n)

AllTracksOf(ut) == defaultTracks \o ut
AvailableOf(ut) ==
  LET Ok(t) == canPlayAudioSrc(t.src, canPlayTypes)
  IN  SelectSeq(IF build = "EQ" THEN AllTracksOf(ut) ELSE defaultTracks, Ok)
\* mutant: the index addresses the raw list instead of the playable one
CurrentTrackOfRaw(idx, ut) ==
  LET raw == IF build = "EQ" THEN AllTracksOf(ut) ELSE defaultTracks
  IN  IF Len(AvailableOf(ut)) > 0
      THEN LET k == JsRem(idx, Len(raw))
           IN  IF k >= 0 THEN raw[k + 1] ELSE UndefinedTrack
      ELSE fallbackTrack

CurrentTrackOf(idx, ut) ==
  LET av == AvailableOf(ut)
  IN  IF Len(av) > 0
      THEN LET k == JsRem(idx, Len(av))
           IN  IF k >= 0 THEN av[k + 1] ELSE UndefinedTrack
      ELSE fallbackTrack

allTracks == AllTracksOf(userTracks)
availableTracks == AvailableOf(userTracks)
hasValidTracks == Len(availableTracks) > 0
currentTrack == CurrentTrackOf(currentIdx, userTracks)
cannotPlayAny == ~canPlayAudioSrc(currentTrack.src, canPlayTypes)

shellInteractive == hasValidTracks /\ ~cannotPlayAny

(* --------------------------- <audio> element --------------------------- *)
\* no rejected promise waits for its .catch callback: `micro` is a reaction
\* in the microtask queue ("current" or "stale": of a promise issued for the
\* current or for a previous resource), `queued` a rejection that pause()
\* queued as a task of the media element
NoRejections == [micro |-> "none", queued |-> FALSE]

\* play().catch(() => setPlaying(false)) is in the equalizer revision only;
\* the shuffle/repeat revision calls play() and drops the promise
Reject(el, kind) ==
  IF build # "EQ" THEN el
  ELSE [el EXCEPT !.micro = IF @ = "stale" \/ kind = "stale" THEN "stale" ELSE "current"]

\* HTMLMediaElement.play(): on a failed resource the promise is rejected at
\* once; an ended resource restarts from the beginning; without enough data
\* the promise stays pending
ElementPlay(el) ==
  CASE el.state = "failed" -> Reject(el, "current")
    [] el.state = "ended" -> [el EXCEPT !.time = 0, !.state = "playing"]
    [] el.state = "playing" -> el
    [] OTHER -> [el EXCEPT !.state = IF el.ready THEN "playing" ELSE "waiting"]

\* HTMLMediaElement.pause(): pending play promises are rejected by a task
\* the element queues
ElementPause(el) ==
  CASE el.state = "playing" -> [el EXCEPT !.state = "paused"]
    [] el.state = "waiting" -> [el EXCEPT !.state = "paused", !.queued = (build = "EQ")]
    [] OTHER -> el

\* a changed src attribute runs the media element load algorithm: promises
\* still pending, and rejections still queued, are rejected on the spot
ElementLoad(el, oldSrc, newSrc) ==
  IF newSrc # oldSrc
  THEN LET aborted == IF el.state = "waiting" \/ el.queued THEN Reject(el, "stale") ELSE el
       IN  [aborted EXCEPT !.time = 0, !.state = "paused", !.ready = ~slowLoads,
                           !.queued = FALSE]
  ELSE el

\* Play/pause effect, deps [playing, currentIdx]
PlayPauseEffect(el, idx2, playing2) ==
  IF playing2 # playing \/ idx2 # currentIdx
  THEN IF playing2 THEN ElementPlay(el) ELSE ElementPause(el)
  ELSE el

(* ------------------------------ Web Audio ------------------------------ *)
\* graph nodes: the k-th MediaElementAudioSourceNode, the three filters and
\* context.destination
SourceNode(k) == <<"source", k>>
Bass == <<"bass", 0>>
Mid == <<"mid", 0>>
Treble == <<"treble", 0>>
Destination == <<"destination", 0>>

\* bass.connect(mid); mid.connect(treble); treble.connect(destination)
FilterChain == {<<Bass, Mid>>, <<Mid, Treble>>, <<Treble, Destination>>}

\* AudioNode.disconnect(): every outgoing connection of the nodes goes
Disconnect(edges, nodes) == { e \in edges : e[1] \notin nodes }

\* useState({context: null, source: null, eqNodes: null, ...})
NoWebAudio == [context |-> FALSE, source |-> 0, eqNodes |-> FALSE]

\* no node exists; `sources` counts the source nodes made from the <audio>
\* element, `cleanup` is the function the setup effect returned last,
\* `outcome` what its last run did, `contexts` and `filters` count the
\* AudioContexts and the filter triples created, `contextState` is
\* context.state, `sync` the calls the play/pause effect made when it last ran
NoGraph == [edges |-> {}, sources |-> 0, cleanup |-> <<"noop", 0>>, outcome |-> "none",
            contexts |-> 0, filters |-> 0, contextState |-> "none", sync |-> <<>>]

\* AudioContext.state of a context created while the page has not had a
\* user gesture (autoplay policy), or on a page that is allowed to start audio
ContextStartStates == {"suspended", "running"}

\* context.createMediaElementSource(audioRef.current): the id of the new
\* node, or 0 for the InvalidStateError raised when the element already
\* feeds a source node
createMediaElementSource(g) == IF g.sources > 0 THEN 0 ELSE g.sources + 1

\* the cleanup returned by the previous run of the setup effect
RunCleanup(g) ==
  CASE g.cleanup[1] = "first" ->
         [g EXCEPT !.edges = Disconnect(g.edges, {SourceNode(g.cleanup[2]), Bass, Mid, Treble})]
    [] g.cleanup[1] = "reconnect" ->
         [g EXCEPT !.edges = Disconnect(g.edges, {SourceNode(g.cleanup[2]), Bass, Mid, Treble})]
    [] OTHER -> g

\* if (!webAudio.context) { ... }: context, filters and source are built
SetupFirstBuild(g, wa) ==
  LET k == createMediaElementSource(g)
  IN  [graph |-> [g EXCEPT !.edges = g.edges \cup {<<SourceNode(k), Bass>>} \cup FilterChain,
                           !.sources = k, !.cleanup = <<"first", k>>, !.outcome = "built",
                           !.contexts = @ + 1, !.filters = @ + 1,
                           !.contextState = "suspended"],
       webAudio |-> [context |-> TRUE, source |-> k, eqNodes |-> TRUE]]

\* else { try { ... } catch (e) {} }: the <audio> element is always the same
\* DOM node, so webAudio.source is never disconnected here
SetupReconnect(g, wa) ==
  LET k == createMediaElementSource(g)
      \* if (!updateNodes) { ... }: a new filter triple
      made == IF wa.eqNodes THEN g.filters ELSE g.filters + 1
  IN  IF k = 0
      THEN [graph |-> [g EXCEPT !.cleanup = <<"noop", 0>>, !.outcome = "failed",
                                !.filters = made],
            webAudio |-> wa]
      ELSE [graph |-> [g EXCEPT !.edges = g.edges \cup {<<SourceNode(k), Bass>>} \cup FilterChain,
                                !.sources = k, !.cleanup = <<"reconnect", k>>,
                                !.outcome = "rebuilt", !.filters = made],
            webAudio |-> [wa EXCEPT !.source = k, !.eqNodes = TRUE]]

\* mutant: every run adds a source node and nothing is ever disconnected
WebAudioSetupStacksSources(g, wa) ==
  [graph |-> [g EXCEPT !.edges = g.edges \cup {<<SourceNode(g.sources + 1), Bass>>} \cup FilterChain,
                       !.sources = g.sources + 1, !.cleanup = <<"noop", 0>>,
                       !.outcome = "rebuilt"],
   webAudio |-> [context |-> TRUE, source |-> g.sources + 1, eqNodes |-> TRUE]]

\* mutant: the effect never sees the context it has stored
WebAudioSetupAlwaysBuilds(g, wa) == SetupFirstBuild(RunCleanup(g), wa)

\* Web Audio setup effect, deps [audioRef, currentTrack.src]: the previous
\* cleanup, then the body
WebAudioSetup(g, wa) ==
  IF ~wa.context THEN SetupFirstBuild(RunCleanup(g), wa)
  ELSE SetupReconnect(RunCleanup(g), wa)

\* mutant: the effect calls play() without looking at the context
PlayPauseCallsNoResume(g, wa, idx2, playing2) ==
  IF playing2 # playing \/ idx2 # currentIdx
  THEN [g EXCEPT !.sync = IF playing2 THEN <<"play">> ELSE <<"pause">>]
  ELSE g

\* the Web Audio side of the play/pause effect: webAudio.context.resume()
\* on a suspended context before play(); wa is the webAudio state of the
\* render the effect belongs to
PlayPauseCalls(g, wa, idx2, playing2) ==
  IF playing2 # playing \/ idx2 # currentIdx
  THEN IF playing2
       THEN IF wa.context /\ g.contextState = "suspended"
            THEN [g EXCEPT !.contextState = "running", !.sync = <<"resume", "play">>]
            ELSE [g EXCEPT !.sync = <<"play">>]
       ELSE [g EXCEPT !.sync = <<"pause">>]
  ELSE g

\* Re-render with the new React state, then flush the effects: el is the
\* element as the handler left it
Commit(idx2, playing2, progress2, ut2, el) ==
  \E newSrc \in {CurrentTrackOf(idx2, ut2).src} :
  \E synced \in {PlayPauseEffect(ElementLoad(el, currentTrack.src, newSrc), idx2, playing2)} :
  \E wired \in {IF build = "EQ" /\ newSrc # currentTrack.src
                THEN WebAudioSetup(audioGraph, webAudio)
                ELSE [graph |-> audioGraph, webAudio |-> webAudio]} :
      /\ currentIdx' = idx2
      /\ playing' = playing2
      /\ progress' = progress2
      /\ userTracks' = ut2
      /\ audioTime' = synced.time
      /\ audioState' = synced.state
      /\ audioReady' = synced.ready
      /\ rejections' = [micro |-> synced.micro, queued |-> synced.queued]
      \* timeupdate/ended effect, deps [currentIdx]: the listener is replaced
      \* by the one of this render only when currentIdx changed
      /\ endedLength' = IF idx2 # currentIdx THEN Len(AvailableOf(ut2)) ELSE endedLength
      /\ webAudio' = wired.webAudio
      /\ audioGraph' = PlayPauseCalls(wired.graph, webAudio, idx2, playing2)

element == [time |-> audioTime, state |-> audioState, ready |-> audioReady,
            micro |-> rejections.micro, queued |-> rejections.queued]

\* promise reactions are microtasks: they run before the next event is
\* dispatched
Idle == rejections.micro = "none"

NoArg == <<>>
NoRun == <<0, 0>>
RunCap == MaxBuiltin + MaxUserTracks + 1

Note(op, arg) == lastOp' = op /\ lastArg' = arg /\ run' = NoRun

(* ------------------------------ Init ---------------------------------- *)
Mounted(slow) ==
  /\ build \in Builds
  /\ slowLoads = slow
  /\ canPlayTypes \in Runtimes
  /\ defaultTracks \in Playlists
  \* a runtime that plays every type treats all lists of one length alike
  /\ canPlayTypes = MimeTypes => \A i \in 1..Len(defaultTracks) : defaultTracks[i].src.ext = "mp3"
  /\ currentIdx = 0
  /\ playing = FALSE
  /\ progress = 0
  /\ shuffle = FALSE
  /\ repeat = FALSE
  /\ audioError = NoError
  /\ fileError = NoError
  /\ userTracks = <<>>
  /\ eqBands = <<0, 0, 0>>
  /\ nodeGain = <<0, 0, 0>>
  /\ fileInputValue = ""
  /\ blobCount = 0
  /\ audioTime = 0
  /\ audioState = "paused"
  /\ audioReady = ~slow
  /\ rejections = NoRejections
  /\ endedLength = Len(availableTracks)
  \* the setup effect has run once on mount in the equalizer revision
  /\ webAudio = IF build = "EQ" THEN WebAudioSetup(NoGraph, NoWebAudio).webAudio ELSE NoWebAudio
  \* ... and the play/pause effect has paused the element
  /\ \E st \in ContextStartStates :
       audioGraph = IF build = "EQ"
                    THEN [WebAudioSetup(NoGraph, NoWebAudio).graph
                            EXCEPT !.contextState = st, !.sync = <<"pause">>]
                    ELSE [NoGraph EXCEPT !.sync = <<"pause">>]
  /\ lastOp = "mount"
  /\ lastArg = NoArg
  /\ run = NoRun

Init == Mounted(FALSE)

(* ----------------------------- transport ------------------------------ *)
\* tracklist rows: SR renders audioTracks, EQ renders availableTracks (or the
\* fallback row); rows take clicks only while the shell has pointer events
TrackRows ==
  IF build = "SR" THEN Len(defaultTracks)
  ELSE IF hasValidTracks THEN Len(availableTracks) ELSE 1

\* mutant: the click forgets setProgress(0)
handleTrackClickKeepsPosition(idx) ==
  /\ Idle
  /\ shellInteractive
  /\ idx \in 0..(TrackRows - 1)
  /\ Commit(idx, TRUE, progress, userTracks, element)
  /\ Note("selectTrack", <<idx>>)
  /\ UNCHANGED <<config, modeVars, audioError, eqVars, fileError, fileInputValue, blobCount>>

handleTrackClick(idx) ==
  /\ Idle
  /\ shellInteractive
  /\ idx \in 0..(TrackRows - 1)
  /\ Commit(idx, TRUE, 0, userTracks, element)
  /\ Note("selectTrack", <<idx>>)
  /\ UNCHANGED <<config, modeVars, audioError, eqVars, fileError, fileInputValue, blobCount>>

handlePlayPause ==
  /\ Idle
  /\ Commit(currentIdx, ~playing, progress, userTracks, element)
  /\ Note("togglePlayPause", NoArg)
  /\ UNCHANGED <<config, modeVars, audioError, eqVars, fileError, fileInputValue, blobCount>>

\* the length handleNext/handlePrev wrap at: audioTracks.length in SR,
\* availableTracks.length in EQ
WrapLength == IF build = "SR" THEN Len(defaultTracks) ELSE Len(availableTracks)

\* getRandomIdx: the indices the do-while loop can return
getRandomIdx(excl) ==
  IF Len(defaultTracks) < 2 THEN {excl}
  ELSE (0..(Len(defaultTracks) - 1)) \ {excl}

\* the indices handleNext / handlePrev can set (dir = 1 / -1) when they wrap
\* at `length`
StepTargetsAt(dir, length) ==
  IF build = "SR" /\ shuffle THEN getRandomIdx(currentIdx)
  ELSE {getNextTrackIdx(currentIdx, dir, length)}

\* ... called from the current render
StepTargets(dir) == StepTargetsAt(dir, WrapLength)

\* ... called from the registered ended listener
ListenerWrapLength == IF build = "SR" THEN Len(defaultTracks) ELSE endedLength

\* mutant: Next forgets setProgress(0)
handleNextKeepsPosition ==
  \E idx2 \in StepTargets(1) :
    /\ Idle
    /\ Commit(idx2, TRUE, progress, userTracks, element)
    /\ lastOp' = "next"
    /\ lastArg' = <<currentIdx>>
    /\ run' = NoRun
    /\ UNCHANGED <<config, modeVars, audioError, eqVars, fileError, fileInputValue, blobCount>>

handleNext ==
  \E idx2 \in StepTargets(1) :
    /\ Idle
    /\ Commit(idx2, TRUE, 0, userTracks, element)
    /\ lastOp' = "next"
    /\ lastArg' = <<currentIdx>>
    /\ run' = IF shuffle THEN NoRun
              ELSE IF lastOp = "next" /\ run[2] > 0
                   THEN <<run[1], Min(run[2] + 1, RunCap)>>
                   ELSE <<currentIdx, 1>>
    /\ UNCHANGED <<config, modeVars, audioError, eqVars, fileError, fileInputValue, blobCount>>

handlePrev ==
  \E idx2 \in StepTargets(-1) :
    /\ Idle
    /\ Commit(idx2, TRUE, 0, userTracks, element)
    /\ Note("prev", <<currentIdx>>)
    /\ UNCHANGED <<config, modeVars, audioError, eqVars, fileError, fileInputValue, blobCount>>

\* SR only
handleEject ==
  /\ Idle
  /\ build = "SR"
  /\ Commit(currentIdx, FALSE, 0, userTracks, [element EXCEPT !.time = 0])
  /\ Note("eject", NoArg)
  /\ UNCHANGED <<config, modeVars, audioError, eqVars, fileError, fileInputValue, blobCount>>

toggleShuffle ==
  /\ Idle
  /\ build = "SR"
  /\ shuffle' = ~shuffle
  /\ Note("shuffle", NoArg)
  /\ UNCHANGED <<config, repeat, currentIdx, playing, progress, audioError, uploadVars,
                 eqVars, audioTime, audioState, effectVars>>

toggleRepeat ==
  /\ Idle
  /\ build = "SR"
  /\ repeat' = ~repeat
  /\ Note("repeat", NoArg)
  /\ UNCHANGED <<config, shuffle, currentIdx, playing, progress, audioError, uploadVars,
                 eqVars, audioTime, audioState, effectVars>>

(* ------------------------- media element events ----------------------- *)
\* timeupdate while the resource plays
timeupdate ==
  /\ Idle
  /\ audioState = "playing"
  /\ audioTime < MaxPos
  /\ audioTime' = audioTime + 1
  /\ progress' = audioTime + 1
  /\ Note("timeupdate", NoArg)
  /\ UNCHANGED <<config, modeVars, currentIdx, playing, audioError, uploadVars, eqVars,
                 audioState, effectVars>>

\* mutant: the ended handler ignores the repeat flag
handleTrackEndIgnoresRepeat ==
  /\ Idle
  /\ audioState = "playing"
  /\ \E idx2 \in StepTargetsAt(1, ListenerWrapLength) :
       Commit(idx2, TRUE, 0, userTracks, [element EXCEPT !.time = MaxPos, !.state = "ended"])
  /\ Note("ended", <<currentIdx>>)
  /\ UNCHANGED <<config, modeVars, audioError, eqVars, fileError, fileInputValue, blobCount>>

\* mutant: once an error has been shown the ended handler does not advance
handleTrackEndStopsAfterError ==
  /\ Idle
  /\ audioState = "playing"
  /\ LET atEnd == [element EXCEPT !.time = MaxPos, !.state = "ended"]
     IN  IF audioError # NoError
         THEN Commit(currentIdx, FALSE, progress, userTracks, atEnd)
         ELSE IF build = "SR" /\ repeat
         THEN Commit(currentIdx, TRUE, 0, userTracks,
                     ElementPlay([atEnd EXCEPT !.time = 0]))
         ELSE \E idx2 \in StepTargetsAt(1, ListenerWrapLength) :
                Commit(idx2, TRUE, 0, userTracks, atEnd)
  /\ Note("ended", <<currentIdx>>)
  /\ UNCHANGED <<config, modeVars, audioError, eqVars, fileError, fileInputValue, blobCount>>

\* ended: the resource reached its end and the element paused itself;
\* handleTrackEnd runs
handleTrackEnd ==
  /\ Idle
  /\ audioState = "playing"
  /\ LET atEnd == [element EXCEPT !.time = MaxPos, !.state = "ended"]
     IN  IF build = "SR" /\ repeat
         THEN Commit(currentIdx, TRUE, 0, userTracks,
                     ElementPlay([atEnd EXCEPT !.time = 0]))
         ELSE \E idx2 \in StepTargetsAt(1, ListenerWrapLength) :
                Commit(idx2, TRUE, 0, userTracks, atEnd)
  /\ Note("ended", <<currentIdx>>)
  /\ UNCHANGED <<config, modeVars, audioError, eqVars, fileError, fileInputValue, blobCount>>

\* the text handleAudioError passes to setAudioError
AudioErrorText == IF build = "SR" THEN AudioErrorMsgSR ELSE AudioErrorMsg

\* mutant: the error handler forgets setPlaying(false)
handleAudioErrorKeepsPlaying ==
  /\ Idle
  /\ audioState # "failed"
  /\ audioError' = AudioErrorText
  /\ Commit(currentIdx, playing, progress, userTracks, [element EXCEPT !.state = "failed"])
  /\ Note("error", NoArg)
  /\ UNCHANGED <<config, modeVars, eqVars, fileError, fileInputValue, blobCount>>

\* error: the resource cannot be fetched or decoded
handleAudioError ==
  /\ Idle
  /\ audioState # "failed"
  /\ audioError' = AudioErrorText
  /\ LET failed == [element EXCEPT !.state = "failed"]
     IN  Commit(currentIdx, FALSE, progress, userTracks,
                IF audioState = "waiting" THEN Reject(failed, "current") ELSE failed)
  /\ Note("error", NoArg)
  /\ UNCHANGED <<config, modeVars, eqVars, fileError, fileInputValue, blobCount>>

\* canplay: the resource has enough data; a pending play() promise is
\* fulfilled and playback starts (no handler is attached to fulfilment)
canplay ==
  /\ Idle
  /\ ~audioReady
  /\ audioState \in {"paused", "waiting"}
  /\ audioReady' = TRUE
  /\ audioState' = IF audioState = "waiting" THEN "playing" ELSE audioState
  /\ Note("canplay", NoArg)
  /\ UNCHANGED <<config, modeVars, currentIdx, playing, progress, audioError, uploadVars,
                 eqVars, audioTime, rejections, endedLength, webAudio, audioGraph>>

\* mutant: play() without a rejection handler
playRejectedUnhandled ==
  /\ ~Idle
  /\ Commit(currentIdx, playing, progress, userTracks, [element EXCEPT !.micro = "none"])
  /\ Note("playRejected", <<IF rejections.micro = "stale" THEN 1 ELSE 0>>)
  /\ UNCHANGED <<config, modeVars, audioError, eqVars, fileError, fileInputValue, blobCount>>

\* the .catch callback of rejected play() promises: setPlaying(false)
playRejected ==
  /\ ~Idle
  /\ Commit(currentIdx, FALSE, progress, userTracks, [element EXCEPT !.micro = "none"])
  /\ Note("playRejected", <<IF rejections.micro = "stale" THEN 1 ELSE 0>>)
  /\ UNCHANGED <<config, modeVars, audioError, eqVars, fileError, fileInputValue, blobCount>>

\* the task queued by pause() rejects the promise; its .catch callback
\* runs: setPlaying(false)
playAborted ==
  /\ Idle
  /\ rejections.queued
  /\ Commit(currentIdx, FALSE, progress, userTracks, [element EXCEPT !.queued = FALSE])
  /\ Note("playAborted", NoArg)
  /\ UNCHANGED <<config, modeVars, audioError, eqVars, fileError, fileInputValue, blobCount>>

(* -------------------------------- seek -------------------------------- *)
\* <input type="range" min="0" max={currentTrack.duration} step="1">: a null
\* duration leaves the attribute out
SeekMax == IF currentTrack.duration = NullDuration THEN DefaultRangeMax
           ELSE currentTrack.duration

\* mutant: the control passes the requested position through
SeekValueUnclamped(raw) == raw

\* the value the seek bar reports for a requested position
SeekValue(raw) == Max(0, Min(SeekMax, raw))

\* positions the seek bar may be asked to take
RawSeeks == (0 - SeekOver)..(MaxPos + SeekOver)

\* audio.currentTime = val: a loaded resource clamps to its length, and an
\* ended one that is moved back resumes; without a resource the value is kept
\* as the start position
ElementSeek(el, val) ==
  IF el.state = "failed" \/ ~el.ready THEN [el EXCEPT !.time = val]
  ELSE [el EXCEPT !.time = Min(val, MaxPos),
                  !.state = IF @ = "ended" /\ val < MaxPos THEN "playing" ELSE @]

handleBarChange(raw) ==
  /\ Idle
  /\ LET val == SeekValue(raw)
     IN  Commit(currentIdx, playing, val, userTracks, ElementSeek(element, val))
  /\ Note("seek", <<raw>>)
  /\ UNCHANGED <<config, modeVars, audioError, eqVars, fileError, fileInputValue, blobCount>>

(* ---------------------------- upload intake --------------------------- *)
\* a File: its MIME type and the suffix of its name after the last dot
FileKinds ==
  { [type |-> "audio/mpeg", ext |-> "mp3"],
    [type |-> "",           ext |-> "MP3"],
    [type |-> "text/plain", ext |-> "txt"],
    [type |-> "audio/wav",  ext |-> "wav"] }

\* the kinds a file dialog can deliver, in a fixed order: FileKinds and a
\* file typed audio/mpeg whose name has another suffix
FileKindList ==
  << [type |-> "audio/mpeg", ext |-> "mp3"],
     [type |-> "",           ext |-> "MP3"],
     [type |-> "audio/mpeg", ext |-> "bin"],
     [type |-> "text/plain", ext |-> "txt"],
     [type |-> "audio/wav",  ext |-> "wav"] >>

Batches == UNION { [1..k -> FileKinds] : k \in 0..MaxBatch }

\* the batches of at most one file
SingleBatches == { files \in Batches : Len(files) <= 1 }

\* mutant: the name test without toLowerCase()
isMp3FileCaseSensitive(f) == f.type = "audio/mpeg" \/ f.ext = "mp3"

\* f.type === "audio/mpeg" || f.name.toLowerCase().endsWith(".mp3")
isMp3File(f) == f.type = "audio/mpeg" \/ ToLower(f.ext) = "mp3"

\* URL.createObjectURL: the k-th object URL of the document, never reused
createObjectURL(k) == [scheme |-> "blob", id |-> k, ext |-> ""]

UploadedTrack(src) == [src |-> src, duration |-> NullDuration, isUploaded |-> TRUE]

\* mutant: the new tracks are put in front of the existing ones
AppendUniqueInFront(prev, newTracks) ==
  LET prevSources == { prev[i].src : i \in 1..Len(prev) }
      IsNew(t) == t.src \notin prevSources
  IN  SelectSeq(newTracks, IsNew) \o prev

\* the setUserTracks updater: prev => [...prev, ...uniqueNew]
AppendUnique(prev, newTracks) ==
  LET prevSources == { prev[i].src : i \in 1..Len(prev) }
      IsNew(t) == t.src \notin prevSources
  IN  prev \o SelectSeq(newTracks, IsNew)

\* mutant: the upload leaves currentIdx where it was
IdxAfterUploadKeepsIndex(newTracks) == currentIdx

\* mutant: the index of the first track of the batch
IdxAfterUploadFirstOfBatch(newTracks) == Len(availableTracks)

\* setCurrentIdx(availableTracks.length + newTracks.length - 1)
IdxAfterUpload(newTracks) == Len(availableTracks) + Len(newTracks) - 1

\* if (!files.length) return;
uploadNothing ==
  /\ fileError' = NoError
  /\ fileInputValue' = ""
  /\ UNCHANGED <<currentIdx, playing, progress, userTracks, blobCount, audioTime, audioState,
                 effectVars>>

\* mutant: no early return, so the index is still moved, and no input reset
uploadRejectedFallsThrough ==
  /\ fileError' = NoValidFilesMsg
  /\ fileInputValue' = FakePath
  /\ Commit(Len(availableTracks) - 1, playing, progress, userTracks, element)
  /\ UNCHANGED blobCount

\* if (!mp3Files.length) { setFileError(...); fileInputRef.current.value = ""; return; }
uploadRejected ==
  /\ fileError' = NoValidFilesMsg
  /\ fileInputValue' = ""
  /\ UNCHANGED <<currentIdx, playing, progress, userTracks, blobCount, audioTime, audioState,
                 effectVars>>

\* at least one admissible file
uploadAdmitted(mp3Files, rejected) ==
  LET newTracks == [i \in 1..Len(mp3Files) |->
                      UploadedTrack(createObjectURL(blobCount + i))]
  IN  /\ fileError' = IF rejected THEN PartialRejectionMsg ELSE NoError
      /\ fileInputValue' = FakePath
      /\ blobCount' = blobCount + Len(mp3Files)
      /\ Commit(IdxAfterUpload(newTracks), playing, progress,
                AppendUnique(userTracks, newTracks), element)

handleFileChange(files) ==
  /\ Idle
  /\ build = "EQ"
  /\ LET mp3Files == SelectSeq(files, isMp3File)
         rejected == Len(files) # Len(mp3Files)
     IN  /\ Len(userTracks) + Len(mp3Files) <= MaxUserTracks
         /\ lastOp' = "upload"
         /\ lastArg' = <<Len(mp3Files), Len(files) - Len(mp3Files)>>
         /\ run' = NoRun
         /\ IF Len(files) = 0 THEN uploadNothing
            ELSE IF Len(mp3Files) = 0 THEN uploadRejected
            ELSE uploadAdmitted(mp3Files, rejected)
  /\ UNCHANGED <<config, modeVars, audioError, eqVars>>

(* --------------------------- track metadata --------------------------- *)
\* audio.duration when loadedmetadata fires, in half seconds; NotFinite is
\* NaN or Infinity (a stream of unknown length)
NotFinite == -1
MeasuredDurations == {NotFinite, 2 * MaxPos - 1, 2 * MaxPos}

\* Math.round on a number of half seconds
MathRound(halves) == (halves + 1) \div 2

\* mutant: the updater does not compare sources
BackfillEveryUnknown(prev, src, seconds) ==
  [i \in 1..Len(prev) |->
     IF prev[i].duration = NullDuration
     THEN [prev[i] EXCEPT !.duration = seconds]
     ELSE prev[i]]

\* the setUserTracks updater of setFakeDurationIfMissing
BackfillDuration(prev, src, seconds) ==
  [i \in 1..Len(prev) |->
     IF prev[i].src = src /\ prev[i].duration = NullDuration
     THEN [prev[i] EXCEPT !.duration = seconds]
     ELSE prev[i]]

\* the user tracks setFakeDurationIfMissing leaves
setFakeDurationIfMissing(measured) ==
  IF /\ Len(userTracks) > 0
     /\ currentTrack.duration = NullDuration
     /\ measured # NotFinite
  THEN BackfillDuration(userTracks, currentTrack.src, MathRound(measured))
  ELSE userTracks

\* loadedmetadata: the element has read the metadata of its resource
loadedmetadata(measured) ==
  /\ Idle
  /\ build = "EQ"
  /\ audioState # "failed"
  /\ Commit(currentIdx, playing, progress, setFakeDurationIfMissing(measured), element)
  /\ Note("loadedmetadata", <<measured>>)
  /\ UNCHANGED <<config, modeVars, audioError, eqVars, fileError, fileInputValue, blobCount>>

(* ------------------------------ equalizer ----------------------------- *)
Bands == 1..3

\* mutant: the control passes the requested value through
RangeValueUnclamped(raw) == raw

\* <input type="range" min={-12} max={12} step={1}>: the value the control
\* reports for a requested value
RangeValue(raw) == Max(EqMin, Min(EqMax, raw))

\* values a slider may be asked to take
RawGains == {EqMin - GainOver, EqMin, 0, EqMax, EqMax + GainOver}

\* mutant: the effect puts the filters back to their default gains
EqGainEffectDefaults(bands2, gains) == [i \in Bands |-> 0]

\* effect, deps [eqBands, webAudio.eqNodes]: copies the bands to the nodes
EqGainEffect(bands2, gains) == [i \in Bands |-> bands2[i]]

\* RetroCarEqualizer onChange for slider `band`
onGainChange(band, raw) ==
  /\ Idle
  /\ build = "EQ"
  /\ hasValidTracks
  /\ LET nv == RangeValue(raw)
         next == [eqBands EXCEPT ![band] = nv]
         live == [nodeGain EXCEPT ![band] = nv]
     IN  /\ eqBands' = next
         /\ nodeGain' = EqGainEffect(next, live)
  /\ Note("setGain", <<band, raw>>)
  /\ UNCHANGED <<config, modeVars, currentIdx, playing, progress, audioError, uploadVars,
                 audioTime, audioState, effectVars>>

(* --------------------------- specifications --------------------------- *)
Next ==
  \/ \E idx \in 0..(MaxBuiltin + MaxUserTracks - 1) : handleTrackClick(idx)
  \/ handlePlayPause
  \/ handleNext
  \/ handlePrev
  \/ handleEject
  \/ toggleShuffle
  \/ toggleRepeat
  \/ timeupdate
  \/ handleTrackEnd
  \/ handleAudioError
  \/ playRejected
  \/ \E files \in SingleBatches : handleFileChange(files)

Spec == Init /\ [][Next]_vars

\* the equalizer revision with its built-in list all playable: sliders and
\* track changes
InitEq ==
  /\ Init
  /\ build = "EQ"
  /\ canPlayTypes = MimeTypes
  /\ defaultTracks = [i \in 1..MaxBuiltin |-> BuiltinTrack(i, "mp3")]

NextEq ==
  \/ \E band \in Bands, raw \in RawGains : onGainChange(band, raw)
  \/ handleNext
  \/ handlePlayPause

SpecEq == InitEq /\ [][NextEq]_vars

\* the equalizer revision with its built-in list all playable: upload
\* batches of every kind of file, between transport steps
NextUpload ==
  \/ \E files \in Batches : handleFileChange(files)
  \/ handleNext
  \/ handlePrev
  \/ handlePlayPause
  \/ timeupdate

SpecUpload == InitEq /\ [][NextUpload]_vars

\* the equalizer revision with its built-in list all playable: the seek
\* bar, between transport steps, media events and uploads
NextSeek ==
  \/ \E raw \in RawSeeks : handleBarChange(raw)
  \/ handlePlayPause
  \/ handleNext
  \/ timeupdate
  \/ handleTrackEnd
  \/ handleAudioError
  \/ playRejected
  \/ \E files \in SingleBatches : handleFileChange(files)

SpecSeek == InitEq /\ [][NextSeek]_vars

\* the equalizer revision on a slow connection: a selected resource takes
\* time to become playable, so play() promises stay pending across events
InitStale ==
  /\ Mounted(TRUE)
  /\ build = "EQ"
  /\ canPlayTypes = MimeTypes
  /\ defaultTracks = [i \in 1..MaxBuiltin |-> BuiltinTrack(i, "mp3")]

NextStale ==
  \/ \E idx \in 0..(MaxBuiltin - 1) : handleTrackClick(idx)
  \/ handleNext
  \/ handlePrev
  \/ handlePlayPause
  \/ canplay
  \/ timeupdate
  \/ handleTrackEnd
  \/ handleAudioError
  \/ playRejected
  \/ playAborted

SpecStale == InitStale /\ [][NextStale]_vars

\* the Playlist Store's append on its own: any batch of tracks whose sources
\* come from a small pool
PoolTracks == { UploadedTrack(createObjectURL(k)) : k \in 1..(MaxUserTracks + 1) }
TrackBatches == UNION { [1..k -> PoolTracks] : k \in 1..MaxBatch }

append(newTracks) ==
  /\ Len(AppendUnique(userTracks, newTracks)) <= MaxUserTracks + 1
  /\ userTracks' = AppendUnique(userTracks, newTracks)
  /\ lastOp' = "append"
  /\ lastArg' = <<Len(userTracks)>>
  /\ UNCHANGED <<config, modeVars, currentIdx, playing, progress, audioError, fileError,
                 eqVars, fileInputValue, blobCount, audioTime, audioState, effectVars, run>>

NextAppend == \E newTracks \in TrackBatches : append(newTracks)

SpecAppend == InitEq /\ [][NextAppend]_vars

\* upload intake on its own: the user picks files in the file dialog
\* (e.target.files), then the change event runs handleFileChange on them
Selections == UNION { [1..k -> 1..Len(FileKindList)] : k \in 0..MaxBatch }
SelectedFiles == [i \in 1..Len(lastArg) |-> FileKindList[lastArg[i]]]

chooseFiles(selection) ==
  /\ Idle
  /\ build = "EQ"
  \* the change event of an earlier selection has been handled
  /\ lastOp # "chooseFiles"
  /\ lastOp' = "chooseFiles"
  /\ lastArg' = selection
  /\ run' = NoRun
  /\ UNCHANGED <<config, modeVars, currentIdx, playing, progress, audioError, uploadVars,
                 eqVars, audioTime, audioState, effectVars>>

changeEvent ==
  /\ lastOp = "chooseFiles"
  /\ handleFileChange(SelectedFiles)

NextIntake ==
  \/ \E selection \in Selections : chooseFiles(selection)
  \/ changeEvent

SpecIntake == InitEq /\ [][NextIntake]_vars

\* the equalizer revision with its built-in list all playable: metadata
\* events between uploads and track changes
NextMetadata ==
  \/ \E measured \in MeasuredDurations : loadedmetadata(measured)
  \/ \E files \in SingleBatches : handleFileChange(files)
  \/ \E idx \in 0..(MaxBuiltin + MaxUserTracks - 1) : handleTrackClick(idx)
  \/ handleNext
  \/ handlePlayPause
  \/ handleAudioError

SpecMetadata == InitEq /\ [][NextMetadata]_vars

\* the equalizer revision with its built-in list all playable: track
\* changes, uploads and slider moves
NextGraph ==
  \/ \E idx \in 0..(MaxBuiltin + MaxUserTracks - 1) : handleTrackClick(idx)
  \/ handleNext
  \/ handlePrev
  \/ handlePlayPause
  \/ \E files \in SingleBatches : handleFileChange(files)
  \/ \E band \in Bands, raw \in RawGains : onGainChange(band, raw)

SpecGraph == InitEq /\ [][NextGraph]_vars

(* ------------------------------- claims ------------------------------- *)
PlayableCount == Len(availableTracks)

C2_PrevThenNextReturns ==
  [][(lastOp = "prev" /\ lastOp' = "next" /\ ~shuffle) => currentIdx' = lastArg[1]]_vars

\* C3: after a tracklist click, from whatever state, progress is 0 and
\* playing is TRUE
C3_SelectResets ==
  lastOp = "selectTrack" => (progress = 0 /\ playing = TRUE)

\* a click on a row of a track whose resource had failed: error shown,
\* element still failed, yet position 0 and play intent set
C3_Witness ==
  /\ lastOp = "selectTrack"
  /\ audioError # NoError
  /\ audioState = "failed"
  /\ progress = 0
  /\ playing

\* C4: after selectTrack(i) on a non-empty PlayableSet the current track is
\* PlayableSet[i mod n], and it is a track the validator accepts
C4_SelectAddressesPlayable ==
  (lastOp = "selectTrack" /\ PlayableCount >= 1)
  => /\ currentTrack = availableTracks[(lastArg[1] % PlayableCount) + 1]
     /\ canPlayAudioSrc(currentTrack.src, canPlayTypes)

\* built-in list [A, B(rejected), C]: selectTrack(1) plays C
C4_Witness ==
  /\ lastOp = "selectTrack"
  /\ lastArg = <<1>>
  /\ Len(defaultTracks) = 3
  /\ ~canPlayAudioSrc(defaultTracks[2].src, canPlayTypes)
  /\ PlayableCount = 2
  /\ currentTrack = defaultTracks[3]

C6_GainsInRange ==
  \A b \in Bands : /\ eqBands[b] \in EqMin..EqMax
                   /\ nodeGain[b] \in EqMin..EqMax

\* a slider asked for more than +12 dB: band and node hold +12
C6_Witness ==
  /\ lastOp = "setGain"
  /\ lastArg[2] > EqMax
  /\ eqBands[lastArg[1]] = EqMax
  /\ nodeGain[lastArg[1]] = EqMax

\* C7: a batch with a >= 1 admissible and r > 0 inadmissible files grows the
\* store by exactly a tracks, put after all existing tracks in batch order,
\* and the partial-rejection message is set
C7_PartialUpload ==
  [][(lastOp' = "upload" /\ lastArg'[1] >= 1 /\ lastArg'[2] > 0)
     => LET admitted == [i \in 1..lastArg'[1] |->
                           UploadedTrack(createObjectURL(blobCount + i))]
        IN  /\ allTracks' = allTracks \o admitted
            /\ Len(allTracks') = Len(allTracks) + lastArg'[1]
            /\ fileError' = PartialRejectionMsg]_vars

\* one admissible and two inadmissible files, uploaded into a store that
\* already holds an uploaded track
C7_Witness ==
  /\ lastOp = "upload"
  /\ lastArg = <<1, 2>>
  /\ Len(userTracks) = 2
  /\ fileError = PartialRejectionMsg

\* C8: a non-empty batch without an admissible file leaves the store and
\* currentIdx as they were, sets the no-valid-files message and resets the
\* file input
C8_RejectedUpload ==
  [][(lastOp' = "upload" /\ lastArg'[1] = 0 /\ lastArg'[2] > 0)
     => /\ allTracks' = allTracks
        /\ currentIdx' = currentIdx
        /\ fileError' = NoValidFilesMsg
        /\ fileInputValue' = ""]_vars

\* two inadmissible files offered after an earlier successful upload
C8_Witness ==
  /\ lastOp = "upload"
  /\ lastArg = <<0, 2>>
  /\ Len(userTracks) >= 1
  /\ fileError = NoValidFilesMsg
  /\ fileInputValue = ""

\* C9: a track that ends while repeat is on leaves progress 0, playing TRUE
\* and currentIdx unchanged, with shuffle on or off
C9_RepeatOnEnd ==
  [][(lastOp' = "ended" /\ repeat)
     => /\ progress' = 0
        /\ playing' = TRUE
        /\ currentIdx' = currentIdx]_vars

\* a track ended with repeat and shuffle both on and plays again from 0
C9_Witness ==
  /\ lastOp = "ended"
  /\ repeat
  /\ shuffle
  /\ currentIdx = lastArg[1]
  /\ audioState = "playing"
  /\ audioTime = 0

ConnectedSources ==
  { k \in 1..audioGraph.sources : <<SourceNode(k), Bass>> \in audioGraph.edges }
SignalPath == ConnectedSources # {} /\ FilterChain \subseteq audioGraph.edges
TrackChangeOps == {"selectTrack", "next", "prev"}

\* C12: a switch from a playing track to another track leaves exactly one
\* source node wired into the filter chain, with the path source -> bass ->
\* mid -> treble -> output in place
C12_OneSourceAfterTrackChange ==
  [][(/\ build = "EQ"
      /\ lastOp' \in TrackChangeOps
      /\ audioState = "playing"
      /\ currentTrack' # currentTrack)
     => /\ Cardinality(ConnectedSources') = 1
        /\ SignalPath']_vars

\* C13: never more than one source node is wired into the filter chain, and
\* the <audio> element never gets a second source node, however often the
\* setup effect runs
C13_AtMostOneSource ==
  /\ Cardinality(ConnectedSources) <= 1
  /\ audioGraph.sources <= 1

\* the setup effect has run again on the element that already feeds a
\* source node: no second node, no second connection
C13_Witness ==
  /\ build = "EQ"
  /\ audioGraph.outcome = "failed"
  /\ audioGraph.sources = 1
  /\ Cardinality(ConnectedSources) <= 1

\* C14: a run of the setup effect whose graph construction fails leaves the
\* connections of the graph as they were before that run
C14_FailedAttachKeepsGraph ==
  [][(/\ build = "EQ"
      /\ currentTrack'.src # currentTrack.src
      /\ audioGraph'.outcome = "failed")
     => audioGraph'.edges = audioGraph.edges]_vars

\* C15: the .catch callback of a play() request issued for a previous track,
\* running after a newer track change, changes none of playing, progress,
\* currentIdx and audioError
C15_StaleEventsIgnored ==
  [][(lastOp' = "playRejected" /\ lastArg' = <<1>>)
     => /\ playing' = playing
        /\ progress' = progress
        /\ currentIdx' = currentIdx
        /\ audioError' = audioError]_vars

\* C16: an error event of the media element, in whatever state, sets
\* audioError and sets playing to FALSE, and leaves currentIdx and the track
\* lists as they were
C16_ErrorStopsPlayback ==
  [][lastOp' = "error"
     => /\ audioError' # NoError
        /\ playing' = FALSE
        /\ currentIdx' = currentIdx
        /\ allTracks' = allTracks
        /\ availableTracks' = availableTracks]_vars

\* the resource of a track other than the first fails in mid-playback
C16_Witness ==
  /\ lastOp = "error"
  /\ audioState = "failed"
  /\ audioTime > 0
  /\ currentIdx >= 1
  /\ audioError = AudioErrorText
  /\ ~playing

\* C17: once an error has been shown, a track that loads and plays
\* afterwards finds audioError cleared: whenever the media element reports
\* playback progress, audioError is empty
C17_ErrorClearedOnLoad ==
  lastOp = "timeupdate" => audioError = NoError

\* C18: every ended event with repeat off does what Next does (the index
\* Next would set, progress 0, playing TRUE), whether or not an error was
\* shown before; and a failed media element is only brought back to playback
\* by a track change the user makes
C18_EndedAdvancesLikeNext ==
  [][/\ (lastOp' = "ended" /\ ~(build = "SR" /\ repeat))
        => /\ currentIdx' \in StepTargets(1)
           /\ progress' = 0
           /\ playing' = TRUE
     /\ (audioState = "failed" /\ audioState' \in {"playing", "waiting"})
        => lastOp' \in TrackChangeOps]_vars

\* a track ended after an earlier track had failed: the player moved on and
\* keeps playing, the error still shown
C18_Witness ==
  /\ lastOp = "ended"
  /\ ~repeat
  /\ audioError # NoError
  /\ currentIdx # lastArg[1]
  /\ progress = 0
  /\ playing
  /\ audioState = "playing"

\* C19: a seek on a track whose duration is known stores the target clamped
\* into [0, duration] in progress and applies the same position to the media
\* element, whatever the target, and leaves playing and currentIdx alone
C19_SeekClamped ==
  [][(lastOp' = "seek" /\ currentTrack.duration # NullDuration)
     => /\ progress' = Max(0, Min(currentTrack.duration, lastArg'[1]))
        /\ progress' \in 0..currentTrack.duration
        /\ audioTime' = progress'
        /\ playing' = playing
        /\ currentIdx' = currentIdx]_vars

\* a seek past the end of a playing built-in track: position and element
\* time are the duration
C19_Witness ==
  /\ lastOp = "seek"
  /\ currentTrack.duration # NullDuration
  /\ lastArg[1] > currentTrack.duration
  /\ progress = currentTrack.duration
  /\ audioTime = progress
  /\ playing

\* C20: the current track is always defined: with a non-empty PlayableSet of
\* n tracks currentIdx is not negative and the current track is
\* PlayableSet[currentIdx mod n]; with an empty one it is the fallback track
C20_CurrentTrackDefined ==
  /\ currentTrack # UndefinedTrack
  /\ PlayableCount > 0
     => /\ currentIdx >= 0
        /\ currentTrack = availableTracks[(currentIdx % PlayableCount) + 1]
  /\ PlayableCount = 0 => currentTrack = fallbackTrack

\* Prev had taken currentIdx to -1 on an empty PlayableSet; then a file was
\* uploaded and is the current track
C20_Witness ==
  /\ lastOp = "upload"
  /\ Len(SelectSeq(defaultTracks, LAMBDA t : canPlayAudioSrc(t.src, canPlayTypes))) = 0
  /\ Len(userTracks) = 1
  /\ currentIdx = 0
  /\ endedLength = 1
  /\ currentTrack = userTracks[1]

\* what the specification admits: declared type audio/mpeg, or a name whose
\* suffix is mp3 in any letter case
Admissible(f) == f.type = "audio/mpeg" \/ f.ext \in {"mp3", "MP3"}

\* C21: an upload admits a file iff its type is audio/mpeg or its name ends
\* in .mp3 in any letter case: the store grows by one track per such file of
\* the batch, in batch order after the existing tracks, and by nothing else
C21_AdmitsExactlyMp3 ==
  [][(lastOp = "chooseFiles" /\ lastOp' = "upload")
     => LET files == SelectedFiles
            admitted == SelectSeq(files, Admissible)
        IN  /\ \A i \in 1..Len(files) : isMp3File(files[i]) <=> Admissible(files[i])
            /\ lastArg' = <<Len(admitted), Len(files) - Len(admitted)>>
            /\ userTracks' = userTracks \o
                              [i \in 1..Len(admitted) |->
                                 UploadedTrack(createObjectURL(blobCount + i))]]_vars

\* a batch of three files of which two were admitted and one was rejected
C21_Witness ==
  /\ lastOp = "upload"
  /\ lastArg = <<2, 1>>
  /\ Len(userTracks) = 2
  /\ fileError = PartialRejectionMsg
  /\ \A i \in 1..2 : userTracks[i].isUploaded

\* C22: a metadata event changes no built-in track and no track whose
\* duration is known, and no track other than the one whose source is the
\* current one; the current uploaded track of unknown duration gets the
\* measured duration when that is a finite number
C22_BackfillOnlyUnknownCurrent ==
  [][lastOp' = "loadedmetadata"
     => /\ defaultTracks' = defaultTracks
        /\ Len(userTracks') = Len(userTracks)
        /\ \A i \in 1..Len(userTracks) :
             \/ userTracks'[i] = userTracks[i]
             \/ /\ userTracks[i].duration = NullDuration
                /\ userTracks[i].src = currentTrack.src
                /\ userTracks'[i] = [userTracks[i] EXCEPT !.duration = MathRound(lastArg'[1])]
        /\ (currentTrack.isUploaded /\ currentTrack.duration = NullDuration
            /\ lastArg'[1] # NotFinite)
           => currentTrack'.duration = MathRound(lastArg'[1])]_vars

\* two uploads: the second one, current, has got its duration while the
\* first one is still unresolved
C22_Witness ==
  /\ lastOp = "loadedmetadata"
  /\ Len(userTracks) = 2
  /\ currentTrack = userTracks[2]
  /\ userTracks[2].duration = MaxPos
  /\ userTracks[1].duration = NullDuration

\* C23: over track changes, uploads and slider moves at most one
\* AudioContext and at most one triple of filter nodes is ever created, and
\* the context and the filter nodes the component holds stay in place
C23_ContextAndFiltersOnce ==
  /\ audioGraph.contexts <= 1
  /\ audioGraph.filters <= 1
  /\ build = "EQ" => (webAudio.context /\ webAudio.eqNodes)

\* the setup effect has re-run for an uploaded track after the sliders were
\* moved: still the one context and the one filter triple
C23_Witness ==
  /\ build = "EQ"
  /\ audioGraph.outcome = "failed"
  /\ currentTrack.isUploaded
  /\ eqBands # <<0, 0, 0>>
  /\ audioGraph.contexts = 1
  /\ audioGraph.filters = 1

\* C24: no AudioContext and no graph exists before the first play intent
\* (selectTrack, next, previous or togglePlayPause): right after mount,
\* before any event, there is neither a context nor a node connection
C24_ContextAfterPlayIntent ==
  lastOp = "mount"
  => /\ ~webAudio.context
     /\ audioGraph.contexts = 0
     /\ audioGraph.edges = {}

\* C25: whenever playing becomes TRUE while the AudioContext is suspended,
\* the play/pause effect calls resume() and then play(), and the context
\* leaves the suspended state; the effect never calls play() alone while the
\* context is suspended
C25_ResumeBeforePlay ==
  [][/\ (build = "EQ" /\ ~playing /\ playing' /\ audioGraph.contextState = "suspended")
        => /\ audioGraph'.sync = <<"resume", "play">>
           /\ audioGraph'.contextState = "running"
     /\ (audioGraph'.sync # audioGraph.sync /\ audioGraph'.sync = <<"play">>)
        => audioGraph.contextState # "suspended"]_vars

\* the first Play after mount on a page whose context started suspended
C25_Witness ==
  /\ build = "EQ"
  /\ lastOp = "togglePlayPause"
  /\ playing
  /\ audioGraph.sync = <<"resume", "play">>
  /\ audioGraph.contextState = "running"
  /\ audioState = "waiting"

C27_UploadSelectsLastAdded ==
  [][(lastOp' = "upload" /\ lastArg'[1] >= 1)
     => /\ currentIdx' \in 0..(Len(availableTracks') - 1)
        /\ currentTrack' = UploadedTrack(createObjectURL(blobCount + lastArg'[1]))
        /\ currentTrack' = userTracks'[Len(userTracks')]
        /\ playing' = playing
        /\ progress' = progress]_vars

\* two files admitted and one rejected while a track was playing at a
\* position past 0: the second admitted file is current
C27_Witness ==
  /\ lastOp = "upload"
  /\ lastArg = <<2, 1>>
  /\ playing
  /\ progress > 0
  /\ currentIdx = Len(availableTracks) - 1
  /\ currentTrack = userTracks[2]

\* C28: when a play request is rejected, playing is set to FALSE and
\* currentIdx stays; so once the rejection has been handled the equalizer
\* revision never shows playing = TRUE on a resource that failed to start
C28_RejectedPlayStops ==
  [][/\ lastOp' = "playRejected"
        => /\ playing' = FALSE
           /\ currentIdx' = currentIdx
     /\ (build = "EQ" /\ Idle' /\ audioState' = "failed") => ~playing']_vars

\* Play pressed on a track whose resource had failed: the request was
\* rejected and the player is back at not playing, same track
C28_Witness ==
  /\ lastOp = "playRejected"
  /\ lastArg = <<0>>
  /\ audioState = "failed"
  /\ audioError # NoError
  /\ audioGraph.sync = <<"pause">>
  /\ ~playing

\* C29: whenever the filter nodes exist and no callback is pending, the gain
\* of each filter node is the value of its band in eqBands, after any
\* slider moves and track changes; a track change leaves bands and gains as
\* they were
C29_GainsPersist ==
  [][/\ (build = "EQ" /\ webAudio'.eqNodes /\ Idle')
        => \A b \in Bands : nodeGain'[b] = eqBands'[b]
     /\ lastOp' \in TrackChangeOps
        => /\ nodeGain' = nodeGain
           /\ eqBands' = eqBands]_vars

\* bass at +12 dB and treble at -12 dB, then a change to another track for
\* which the setup effect ran again: bands and node gains still hold them
C29_Witness ==
  /\ lastOp \in TrackChangeOps
  /\ currentIdx # lastArg[1]
  /\ audioGraph.outcome = "failed"
  /\ eqBands = <<EqMax, 0, EqMin>>
  /\ nodeGain = eqBands

\* C30: in the equalizer revision an ended, Next or tracklist-click event
\* that leaves playing TRUE leaves the media element with a play request in force and at position 0,
\* also when the event maps currentIdx to itself: unless its resource has
\* failed, the element is neither ended nor paused nor at its old position
C30_PlayReissuedFromStart ==
  [][(/\ build = "EQ"
      /\ lastOp' \in {"ended", "next", "selectTrack"}
      /\ playing'
      /\ audioState' # "failed")
     => /\ audioState' \in {"playing", "waiting"}
        /\ audioTime' = 0]_vars

====
